---- MODULE Spec2Model ----
(***************************************************************************)
(* Matrix (src/common/matrix.h): one logical half-precision matrix held in *)
(* a host buffer and a device buffer, with fill, transfer and comparison   *)
(* operations.                                                             *)
(*                                                                         *)
(* Numbers.  Every half and every float below is written as an integer     *)
(* count of 2^-24, the smallest positive half: 1.0 is 2^24.  A half keeps  *)
(* 11 significant bits, a float 24; conversions and float arithmetic round *)
(* to nearest, ties to even.  Only finite, non-negative values are drawn.  *)
(* A float that is not a whole count of 2^-24 (a quotient) is a pair       *)
(* <<n, sh>> standing for n / 2^sh.                                        *)
(***************************************************************************)
EXTENDS Integers, Sequences, FiniteSets, TLC

VARIABLES m_row, m_col, m_elem_num, m_data, m_gpu_data,
          m_max_diff, m_avg_diff, host, device, status, last

vars == <<m_row, m_col, m_elem_num, m_data, m_gpu_data,
          m_max_diff, m_avg_diff, host, device, status, last>>

-----------------------------------------------------------------------------
(* Bounds and input sets *)

MaxElems == 2
MaxElemsCmp == 3

NULL == 0

Objs == {1, 2}

One == 2^24
Two == 2 * One
Tiny == 1

HalfBits == 11
FloatBits == 24

\* floats the random engine may return, and the ranges asked for
FloatGrid == {0, One - 1, One, Two}
CtorRanges == {<<0, One>>}
Ranges == {<<0, 0>>, <<0, One>>, <<One, One>>, <<Two, Two>>}
\* halves an external kernel may leave in a device buffer
Halfs == {0, One}

\* the comparison specification draws from a grid with a subnormal half
FloatGridCmp == {0, Tiny, Two - 2}
RangesCmp == {<<0, Two>>}

-----------------------------------------------------------------------------
(* Rounding *)

\* the number of bits of x
RECURSIVE BitLen(_)
BitLen(x) ==
    IF x >= 65536 THEN 16 + BitLen(x \div 65536)
    ELSE IF x >= 256 THEN 8 + BitLen(x \div 256)
    ELSE IF x >= 16 THEN 4 + BitLen(x \div 16)
    ELSE IF x >= 4 THEN 2 + BitLen(x \div 4)
    ELSE IF x >= 2 THEN 2
    ELSE x

Abs(x) == IF x < 0 THEN -x ELSE x

Max(a, b) == IF a < b THEN b ELSE a

\* the integer nearest to num / den, ties to even
RoundDiv(num, den) ==
    LET q == num \div den
        r == num % den
    IN  IF 2 * r < den THEN q
        ELSE IF 2 * r > den THEN q + 1
        ELSE IF q % 2 = 0 THEN q ELSE q + 1

\* x rounded to `bits` significant bits
RoundSig(x, bits) ==
    IF x < 2 ^ bits THEN x
    ELSE LET q == 2 ^ (BitLen(x) - bits) IN RoundDiv(x, q) * q

float2half(f) == RoundSig(f, HalfBits)

half2float(h) == RoundSig(h, FloatBits)

RECURSIVE Canon(_)
Canon(f) == IF f[2] > 0 /\ f[1] % 2 = 0 THEN Canon(<<f[1] \div 2, f[2] - 1>>) ELSE f

RECURSIVE QuotShift(_, _, _)
QuotShift(x, n, sh) ==
    IF x * (2 ^ sh) >= (2 ^ (FloatBits - 1)) * n THEN sh ELSE QuotShift(x, n, sh + 1)

\* float(double(x) / double(n)): the quotient rounded to a float
FloatDiv(x, n) ==
    IF x = 0 THEN <<0, 0>>
    ELSE IF x >= (2 ^ FloatBits) * n
         THEN LET q == 2 ^ (BitLen(x \div n) - FloatBits)
              IN  <<RoundDiv(x, n * q) * q, 0>>
         ELSE LET sh == QuotShift(x, n, 0)
              IN  Canon(<<RoundDiv(x * (2 ^ sh), n), sh>>)

FloatOf(x) == <<x, 0>>

\* uniform_real_distribution<float>(min, max): a float of [min, max), min itself
\* when the range is degenerate
InUniform(f, min, max) == IF min = max THEN f = min ELSE min <= f /\ f < max

-----------------------------------------------------------------------------
(* Device runtime *)

cudaMalloc(n) == [i \in 1..n |-> 0]

cudaMemcpy(dst, src, count) ==
    [i \in 1..Len(dst) |-> IF i <= count THEN src[i] ELSE dst[i]]

cudaMemset(dst, value, count) ==
    [i \in 1..Len(dst) |-> IF i <= count THEN value ELSE dst[i]]

-----------------------------------------------------------------------------
(* State *)

Op(op, obj, base) == [op |-> op, obj |-> obj, base |-> base]

Alive(o) == m_data[o] # NULL

\* a Matrix* argument: nullptr or a constructed object
IsPointer(base) == IF base = NULL THEN TRUE ELSE Alive(base)

Init ==
    /\ m_row = [o \in Objs |-> 0]
    /\ m_col = [o \in Objs |-> 0]
    /\ m_elem_num = [o \in Objs |-> 0]
    /\ m_data = [o \in Objs |-> NULL]
    /\ m_gpu_data = [o \in Objs |-> NULL]
    /\ m_max_diff = [o \in Objs |-> FloatOf(0)]
    /\ m_avg_diff = [o \in Objs |-> FloatOf(0)]
    /\ host = [o \in Objs |-> <<>>]
    /\ device = [o \in Objs |-> <<>>]
    /\ status = "running"
    /\ last = Op("none", NULL, NULL)

\* a failed HGEMM_CHECK*: the process ends, nothing else is touched
Fatal(op) ==
    /\ status' = "aborted"
    /\ last' = op

getData(o) == host[m_data[o]]

getGpuData(o) == device[m_gpu_data[o]]

Generate(u) == [i \in 1..Len(u) |-> float2half(u[i])]

\* faulty variant: the constructor without its host-to-device copy
Matrix_NoUpload(o, row, col, min, max, u) ==
    /\ status = "running"
    /\ ~Alive(o)
    /\ m_row' = [m_row EXCEPT ![o] = row]
    /\ m_col' = [m_col EXCEPT ![o] = col]
    /\ IF row > 0 /\ col > 0 /\ row * col > 0
       THEN /\ Len(u) = row * col
            /\ \A i \in 1..Len(u) : InUniform(u[i], min, max)
            /\ m_elem_num' = [m_elem_num EXCEPT ![o] = row * col]
            /\ m_data' = [m_data EXCEPT ![o] = o]
            /\ m_gpu_data' = [m_gpu_data EXCEPT ![o] = o]
            /\ host' = [host EXCEPT ![o] = Generate(u)]
            /\ device' = [device EXCEPT ![o] = cudaMalloc(row * col)]
            /\ status' = status
            /\ last' = Op("Matrix", o, NULL)
       ELSE /\ Len(u) = 0
            /\ Fatal(Op("Matrix", o, NULL))
            /\ UNCHANGED <<m_elem_num, m_data, m_gpu_data, host, device>>
    /\ UNCHANGED <<m_max_diff, m_avg_diff>>

Matrix(o, row, col, min, max, u) ==
    /\ status = "running"
    /\ ~Alive(o)
    /\ m_row' = [m_row EXCEPT ![o] = row]
    /\ m_col' = [m_col EXCEPT ![o] = col]
    /\ IF row > 0 /\ col > 0 /\ row * col > 0
       THEN /\ Len(u) = row * col
            /\ \A i \in 1..Len(u) : InUniform(u[i], min, max)
            /\ m_elem_num' = [m_elem_num EXCEPT ![o] = row * col]
            /\ m_data' = [m_data EXCEPT ![o] = o]
            /\ m_gpu_data' = [m_gpu_data EXCEPT ![o] = o]
            /\ host' = [host EXCEPT ![o] = Generate(u)]
            /\ device' = [device EXCEPT ![o] = cudaMemcpy(cudaMalloc(row * col), Generate(u), row * col)]
            /\ status' = status
            /\ last' = Op("Matrix", o, NULL)
       ELSE /\ Len(u) = 0
            /\ Fatal(Op("Matrix", o, NULL))
            /\ UNCHANGED <<m_elem_num, m_data, m_gpu_data, host, device>>
    /\ UNCHANGED <<m_max_diff, m_avg_diff>>

\* faulty variant: zeros() without its pull of the device buffer
zeros_NoPull(o) ==
    /\ status = "running"
    /\ Alive(o)
    /\ device' = [device EXCEPT ![m_gpu_data[o]] = cudaMemset(getGpuData(o), 0, m_elem_num[o])]
    /\ last' = Op("zeros", o, NULL)
    /\ UNCHANGED <<m_row, m_col, m_elem_num, m_data, m_gpu_data, m_max_diff, m_avg_diff, host, status>>

zeros(o) ==
    /\ status = "running"
    /\ Alive(o)
    /\ device' = [device EXCEPT ![m_gpu_data[o]] = cudaMemset(getGpuData(o), 0, m_elem_num[o])]
    /\ host' = [host EXCEPT ![m_data[o]] = cudaMemcpy(getData(o), device'[m_gpu_data[o]], m_elem_num[o])]
    /\ last' = Op("zeros", o, NULL)
    /\ UNCHANGED <<m_row, m_col, m_elem_num, m_data, m_gpu_data, m_max_diff, m_avg_diff, status>>

\* faulty variant: random() pushing what it generated to the device
random_Upload(o, min, max, u) ==
    /\ status = "running"
    /\ Alive(o)
    /\ Len(u) = m_elem_num[o]
    /\ \A i \in 1..Len(u) : InUniform(u[i], min, max)
    /\ host' = [host EXCEPT ![m_data[o]] = Generate(u)]
    /\ device' = [device EXCEPT ![m_gpu_data[o]] = cudaMemcpy(getGpuData(o), Generate(u), m_elem_num[o])]
    /\ last' = Op("random", o, NULL)
    /\ UNCHANGED <<m_row, m_col, m_elem_num, m_data, m_gpu_data, m_max_diff, m_avg_diff, status>>

\* faulty variant: random() without its pull of the device buffer
random_NoPull(o, min, max, u) ==
    /\ status = "running"
    /\ Alive(o)
    /\ Len(u) = m_elem_num[o]
    /\ \A i \in 1..Len(u) : InUniform(u[i], min, max)
    /\ host' = [host EXCEPT ![m_data[o]] = Generate(u)]
    /\ last' = Op("random", o, NULL)
    /\ UNCHANGED <<m_row, m_col, m_elem_num, m_data, m_gpu_data, m_max_diff, m_avg_diff, device, status>>

random(o, min, max, u) ==
    /\ status = "running"
    /\ Alive(o)
    /\ Len(u) = m_elem_num[o]
    /\ \A i \in 1..Len(u) : InUniform(u[i], min, max)
    /\ host' = [host EXCEPT ![m_data[o]] = cudaMemcpy(Generate(u), getGpuData(o), m_elem_num[o])]
    /\ last' = Op("random", o, NULL)
    /\ UNCHANGED <<m_row, m_col, m_elem_num, m_data, m_gpu_data, m_max_diff, m_avg_diff, device, status>>

\* faulty variant: tearUp() reading base's device buffer
tearUp_FromDevice(o, base) ==
    /\ status = "running"
    /\ Alive(o)
    /\ IsPointer(base)
    /\ IF base # NULL /\ m_row[o] = m_row[base] /\ m_col[o] = m_col[base]
       THEN /\ device' = [device EXCEPT ![m_gpu_data[o]] = cudaMemcpy(getGpuData(o), getGpuData(base), m_elem_num[o])]
            /\ status' = status
            /\ last' = Op("tearUp", o, base)
       ELSE /\ Fatal(Op("tearUp", o, base))
            /\ UNCHANGED device
    /\ UNCHANGED <<m_row, m_col, m_elem_num, m_data, m_gpu_data, m_max_diff, m_avg_diff, host>>

\* faulty variant: tearUp() without the check of the column count
tearUp_NoColCheck(o, base) ==
    /\ status = "running"
    /\ Alive(o)
    /\ IsPointer(base)
    /\ IF base # NULL /\ m_row[o] = m_row[base]
       THEN /\ device' = [device EXCEPT ![m_gpu_data[o]] =
                             [i \in 1..m_elem_num[o] |->
                                 IF i <= m_elem_num[base] THEN getData(base)[i] ELSE 0]]
            /\ status' = status
            /\ last' = Op("tearUp", o, base)
       ELSE /\ Fatal(Op("tearUp", o, base))
            /\ UNCHANGED device
    /\ UNCHANGED <<m_row, m_col, m_elem_num, m_data, m_gpu_data, m_max_diff, m_avg_diff, host>>

tearUp(o, base) ==
    /\ status = "running"
    /\ Alive(o)
    /\ IsPointer(base)
    /\ IF base # NULL /\ m_row[o] = m_row[base] /\ m_col[o] = m_col[base]
       THEN /\ device' = [device EXCEPT ![m_gpu_data[o]] = cudaMemcpy(getGpuData(o), getData(base), m_elem_num[o])]
            /\ status' = status
            /\ last' = Op("tearUp", o, base)
       ELSE /\ Fatal(Op("tearUp", o, base))
            /\ UNCHANGED device
    /\ UNCHANGED <<m_row, m_col, m_elem_num, m_data, m_gpu_data, m_max_diff, m_avg_diff, host>>

moveToHost(o) ==
    /\ status = "running"
    /\ Alive(o)
    /\ host' = [host EXCEPT ![m_data[o]] = cudaMemcpy(getData(o), getGpuData(o), m_elem_num[o])]
    /\ last' = Op("moveToHost", o, NULL)
    /\ UNCHANGED <<m_row, m_col, m_elem_num, m_data, m_gpu_data, m_max_diff, m_avg_diff, device, status>>

\* faulty variant: the loop keeping the last difference in place of the largest
RECURSIVE DiffLoop_LastDiff(_, _, _, _, _, _)
DiffLoop_LastDiff(a, b, n, i, max_diff, avg_diff) ==
    IF i > n THEN <<max_diff, avg_diff>>
    ELSE LET diff == RoundSig(Abs(half2float(a[i]) - half2float(b[i])), FloatBits)
         IN  DiffLoop_LastDiff(a, b, n, i + 1, diff, RoundSig(avg_diff + diff, FloatBits))

\* the loop of checkValue from index i on: <<m_max_diff, m_avg_diff>> at its end
RECURSIVE DiffLoop(_, _, _, _, _, _)
DiffLoop(a, b, n, i, max_diff, avg_diff) ==
    IF i > n THEN <<max_diff, avg_diff>>
    ELSE LET diff == RoundSig(Abs(half2float(a[i]) - half2float(b[i])), FloatBits)
         IN  DiffLoop(a, b, n, i + 1, Max(max_diff, diff), RoundSig(avg_diff + diff, FloatBits))

\* faulty variant: checkValue() without the reset of m_max_diff
checkValue_NoReset(o, base) ==
    /\ status = "running"
    /\ Alive(o)
    /\ IsPointer(base)
    /\ IF base # NULL /\ m_row[o] = m_row[base] /\ m_col[o] = m_col[base]
       THEN LET r == DiffLoop(getData(o), getData(base), m_elem_num[o], 1, m_max_diff[o][1], 0)
            IN  /\ m_max_diff' = [m_max_diff EXCEPT ![o] = FloatOf(r[1])]
                /\ m_avg_diff' = [m_avg_diff EXCEPT ![o] = FloatDiv(r[2], m_elem_num[o])]
                /\ status' = status
                /\ last' = Op("checkValue", o, base)
       ELSE /\ Fatal(Op("checkValue", o, base))
            /\ UNCHANGED <<m_max_diff, m_avg_diff>>
    /\ UNCHANGED <<m_row, m_col, m_elem_num, m_data, m_gpu_data, host, device>>

checkValue(o, base) ==
    /\ status = "running"
    /\ Alive(o)
    /\ IsPointer(base)
    /\ IF base # NULL /\ m_row[o] = m_row[base] /\ m_col[o] = m_col[base]
       THEN LET r == DiffLoop(getData(o), getData(base), m_elem_num[o], 1, 0, 0)
            IN  /\ m_max_diff' = [m_max_diff EXCEPT ![o] = FloatOf(r[1])]
                /\ m_avg_diff' = [m_avg_diff EXCEPT ![o] = FloatDiv(r[2], m_elem_num[o])]
                /\ status' = status
                /\ last' = Op("checkValue", o, base)
       ELSE /\ Fatal(Op("checkValue", o, base))
            /\ UNCHANGED <<m_max_diff, m_avg_diff>>
    /\ UNCHANGED <<m_row, m_col, m_elem_num, m_data, m_gpu_data, host, device>>

\* a kernel launched on getGpuData() leaves w in the device buffer
KernelWrite(o, w) ==
    /\ status = "running"
    /\ Alive(o)
    /\ Len(w) = m_elem_num[o]
    /\ device' = [device EXCEPT ![m_gpu_data[o]] = w]
    /\ last' = Op("kernel", o, NULL)
    /\ UNCHANGED <<m_row, m_col, m_elem_num, m_data, m_gpu_data, m_max_diff, m_avg_diff, host, status>>

-----------------------------------------------------------------------------
(* Specifications *)

Bases == Objs \cup {NULL}

\* the shapes asked of the constructor: a zero dimension is asked for too
Shapes(maxElems) ==
    {s \in (0..maxElems) \X (0..maxElems) : s[1] * s[2] <= maxElems}

\* what the engine can draw for n elements of [min, max)
Draws(grid, n, min, max) == [1..n -> {f \in grid : InUniform(f, min, max)}]

\* the objects the program has yet to construct
Unbuilt == {o \in Objs : ~Alive(o)}

\* the whole program: any call on any object, in any order
Next ==
    \/ \E o \in Unbuilt, s \in Shapes(MaxElems), r \in CtorRanges :
           \E u \in Draws(FloatGrid, s[1] * s[2], r[1], r[2]) :
               Matrix(o, s[1], s[2], r[1], r[2], u)
    \/ \E o \in Objs :
           \/ zeros(o)
           \/ \E r \in Ranges : \E u \in Draws(FloatGrid, m_elem_num[o], r[1], r[2]) :
                  random(o, r[1], r[2], u)
           \/ \E base \in Bases : tearUp(o, base)
           \/ moveToHost(o)
           \/ \E base \in Bases : checkValue(o, base)
           \/ \E w \in [1..m_elem_num[o] -> Halfs] : KernelWrite(o, w)

Spec == Init /\ [][Next]_vars

\* the fill and transfer operations alone: the buffers without the statistics
NextFill ==
    \/ \E o \in Unbuilt, s \in Shapes(MaxElems), r \in CtorRanges :
           \E u \in Draws(FloatGrid, s[1] * s[2], r[1], r[2]) :
               Matrix(o, s[1], s[2], r[1], r[2], u)
    \/ \E o \in Objs :
           \/ zeros(o)
           \/ \E r \in Ranges : \E u \in Draws(FloatGrid, m_elem_num[o], r[1], r[2]) :
                  random(o, r[1], r[2], u)
           \/ \E base \in Bases : tearUp(o, base)
           \/ moveToHost(o)
           \/ \E w \in [1..m_elem_num[o] -> Halfs] : KernelWrite(o, w)

SpecFill == Init /\ [][NextFill]_vars

\* construction, then zeros, random, moveToHost and checkValue only: no tearUp,
\* no kernel
NextSync ==
    \/ \E o \in Unbuilt, s \in Shapes(MaxElems), r \in Ranges :
           \E u \in Draws(FloatGrid, s[1] * s[2], r[1], r[2]) :
               Matrix(o, s[1], s[2], r[1], r[2], u)
    \/ \E o \in Objs :
           \/ zeros(o)
           \/ \E r \in Ranges : \E u \in Draws(FloatGrid, m_elem_num[o], r[1], r[2]) :
                  random(o, r[1], r[2], u)
           \/ moveToHost(o)
           \/ \E base \in Objs : checkValue(o, base)

SpecSync == Init /\ [][NextSync]_vars

\* comparisons of freshly constructed column vectors whose elements need every
\* bit of a float
NextCmp ==
    \/ \E o \in Unbuilt, row \in 1..MaxElemsCmp, r \in RangesCmp :
           \E u \in Draws(FloatGridCmp, row, r[1], r[2]) :
               Matrix(o, row, 1, r[1], r[2], u)
    \/ \E o \in Objs, base \in Objs : checkValue(o, base)

SpecCmp == Init /\ [][NextCmp]_vars

-----------------------------------------------------------------------------
(* Properties *)

AllEq(buf, v) == \A i \in 1..Len(buf) : buf[i] = v

Returned(op) == last.op = op /\ status = "running"

\* C1: a constructor that returns leaves an object with positive dimensions,
\* getElemNum() = rows * cols, non-null host and device handles, and a host
\* buffer and a device buffer of that many elements that agree element by
\* element.
C1_Constructed ==
    Returned("Matrix") =>
        LET o == last.obj
        IN  /\ m_row[o] > 0 /\ m_col[o] > 0
            /\ m_elem_num[o] = m_row[o] * m_col[o]
            /\ m_data[o] # NULL /\ m_gpu_data[o] # NULL
            /\ Len(getData(o)) = m_elem_num[o]
            /\ Len(getGpuData(o)) = m_elem_num[o]
            /\ \A i \in 1..m_elem_num[o] : getData(o)[i] = getGpuData(o)[i]

C1_Witness ==
    /\ Returned("Matrix")
    /\ m_row[last.obj] = 1 /\ m_col[last.obj] = 2
    /\ getData(last.obj) = <<0, One>>

\* C2 (as stated): when random(min, max) returns, the host buffer and the device
\* buffer both hold the content that call generated, every element of it within
\* the range asked for, so that a pull of the device buffer yields it.
C2_RandomInstalls ==
    [][\A o \in Objs, r \in Ranges :
          \A u \in Draws(FloatGrid, m_elem_num[o], r[1], r[2]) :
              random(o, r[1], r[2], u) =>
                  /\ host'[m_data[o]] = Generate(u)
                  /\ device'[m_gpu_data[o]] = Generate(u)
                  /\ \A i \in 1..m_elem_num[o] :
                         r[1] <= device'[m_gpu_data[o]][i] /\ device'[m_gpu_data[o]][i] <= r[2]]_vars

\* C3: when zeros() returns, whatever was done to the object before (a tearUp, a
\* kernel's write), every element of its device buffer and of its host buffer
\* is zero.
C3_ZerosClears ==
    Returned("zeros") =>
        /\ Len(getData(last.obj)) = m_elem_num[last.obj]
        /\ Len(getGpuData(last.obj)) = m_elem_num[last.obj]
        /\ AllEq(getData(last.obj), 0)
        /\ AllEq(getGpuData(last.obj), 0)

C3_Witness ==
    /\ Returned("zeros")
    /\ m_elem_num[last.obj] = 2

\* C4 (as stated): a tearUp(base) that returns leaves this object's device
\* buffer equal to base's host content and changes neither host buffer nor
\* base's device buffer; a moveToHost() right after it leaves this object's
\* host buffer equal to base's host content.
C4_TearUpFrame ==
    [][/\ (last'.op = "tearUp" /\ status' = "running") =>
              /\ device'[m_gpu_data[last'.obj]] = host[m_data[last'.base]]
              /\ host' = host
              /\ device'[m_gpu_data[last'.base]] = device[m_gpu_data[last'.base]]
       /\ (Returned("tearUp") /\ last'.op = "moveToHost" /\ last'.obj = last.obj) =>
              host'[m_data[last.obj]] = host[m_data[last.base]]]_vars

\* C4 (amended): as above, with base's device buffer unchanged when base is
\* another object, and no device buffer but this object's changed.
C4_TearUpFrameOther ==
    [][/\ (last'.op = "tearUp" /\ status' = "running") =>
              /\ device'[m_gpu_data[last'.obj]] = host[m_data[last'.base]]
              /\ host' = host
              /\ \A x \in Objs : x # last'.obj => device'[x] = device[x]
       /\ (Returned("tearUp") /\ last'.op = "moveToHost" /\ last'.obj = last.obj) =>
              host'[m_data[last.obj]] = host[m_data[last.base]]]_vars

C4_Witness ==
    /\ Returned("tearUp")
    /\ last.base # last.obj
    /\ getGpuData(last.obj) = <<0, One>>
    /\ getData(last.obj) = <<One, 0>>
    /\ getGpuData(last.base) = <<One, One>>

\* C10: random(min, max) leaves the device buffer as it was, and the host
\* buffer on return holds what the device buffer held before the call, for
\* every range and every draw.
C10_RandomKeepsDevice ==
    [][last'.op = "random" =>
          /\ device' = device
          /\ host'[m_data[last'.obj]] = device[m_gpu_data[last'.obj]]
          /\ \A x \in Objs : x # last'.obj => host'[x] = host[x]]_vars

C10_Witness ==
    /\ Returned("random")
    /\ getData(last.obj) = <<0, One>>
    /\ getGpuData(last.obj) = <<0, One>>

\* tearUp and checkValue reject this base: a null pointer or another shape
BadBase(o, base) ==
    IF base = NULL THEN TRUE
    ELSE m_row[o] # m_row[base] \/ m_col[o] # m_col[base]

\* C5: tearUp(base) and checkValue(base) with a null base or a base of another
\* row or column count end the program, and no element of any host or device
\* buffer and no statistic has changed when they do.
C5_FailFast ==
    [][(last'.op \in {"tearUp", "checkValue"} /\ BadBase(last'.obj, last'.base)) =>
          /\ status' = "aborted"
          /\ host' = host
          /\ device' = device
          /\ m_max_diff' = m_max_diff
          /\ m_avg_diff' = m_avg_diff]_vars

C5_Witness ==
    /\ status = "aborted"
    /\ last.op = "tearUp"
    /\ last.base # NULL
    /\ m_elem_num[last.obj] = m_elem_num[last.base]
    /\ m_col[last.obj] # m_col[last.base]
    /\ getData(last.base) # getGpuData(last.obj)

\* C7: after construction and any calls of zeros, random, moveToHost and
\* checkValue, with no tearUp and no kernel, moveToHost() leaves every host
\* buffer as it was.
C7_RoundTrip ==
    [][last'.op = "moveToHost" => host' = host]_vars

C7_Witness ==
    /\ Returned("moveToHost")
    /\ getData(last.obj) = <<0, One>>
    /\ m_max_diff[last.obj] = FloatOf(One)

-----------------------------------------------------------------------------
(* The statistics, in exact arithmetic *)

AbsDiffs(a, b) == [i \in 1..Len(a) |-> Abs(a[i] - b[i])]

SeqMax(d) == CHOOSE m \in {d[i] : i \in 1..Len(d)} \cup {0} : \A i \in 1..Len(d) : d[i] <= m

RECURSIVE SumTo(_, _)
SumTo(d, k) == IF k = 0 THEN 0 ELSE SumTo(d, k - 1) + d[k]

\* x, a whole count of 2^-24, needs no more than the 24 bits of a float
IsFloat(x) == IF x < 2 ^ FloatBits THEN TRUE ELSE x % (2 ^ (BitLen(x) - FloatBits)) = 0

\* the float f = <<n, sh>> is num / den
Exactly(f, num, den) == f[1] * den = num * (2 ^ f[2])

\* some float is num / den
Representable(num, den) ==
    \E sh \in 0..(BitLen(den) - 1) :
        (num * (2 ^ sh)) % den = 0 /\ IsFloat((num * (2 ^ sh)) \div den)

\* the float f = <<n, sh>> is num / den rounded: num / den itself when that is
\* a float, and within one part in 2^24 of it otherwise
IsRounded(f, num, den) ==
    LET err == Abs(f[1] * den - num * (2 ^ f[2]))
    IN  /\ IsFloat(f[1])
        /\ Representable(num, den) => err = 0
        /\ err = 0 \/ (num * (2 ^ f[2])) \div err >= 2 ^ FloatBits

\* every difference and every partial sum of them is a float
ExactSums(d) == \A k \in 1..Len(d) : IsFloat(d[k]) /\ IsFloat(SumTo(d, k))

\* C6 (as stated): checkValue sets max-diff to the largest |this.host[i] -
\* base.host[i]| and avg-diff to the sum of those divided by the element count;
\* equal contents give 0 and 0, contents a constant d apart give d and d.
C6_ExactStats ==
    [][(last'.op = "checkValue" /\ status' = "running") =>
          LET o == last'.obj
              d == AbsDiffs(host[m_data[o]], host[m_data[last'.base]])
          IN  /\ m_max_diff'[o] = FloatOf(SeqMax(d))
              /\ Exactly(m_avg_diff'[o], SumTo(d, Len(d)), Len(d))
              /\ AllEq(d, 0) => m_max_diff'[o] = FloatOf(0) /\ m_avg_diff'[o] = FloatOf(0)
              /\ AllEq(d, d[1]) => m_max_diff'[o] = FloatOf(d[1]) /\ m_avg_diff'[o] = FloatOf(d[1])]_vars

\* C6 (amended): max-diff is the largest difference rounded to a float; when
\* every difference and partial sum is a float, avg-diff is their sum divided
\* by the element count, rounded to a float; equal contents give 0 and 0, and
\* contents a constant d apart give d and d when d and its multiples up to the
\* element count are floats.
C6_FloatStats ==
    [][(last'.op = "checkValue" /\ status' = "running") =>
          LET o == last'.obj
              d == AbsDiffs(host[m_data[o]], host[m_data[last'.base]])
          IN  /\ Len(d) = m_elem_num[o]
              /\ m_max_diff'[o][2] = 0
              /\ IsRounded(m_max_diff'[o], SeqMax(d), 1)
              /\ ExactSums(d) => IsRounded(m_avg_diff'[o], SumTo(d, Len(d)), Len(d))
              /\ AllEq(d, 0) => m_max_diff'[o] = FloatOf(0) /\ m_avg_diff'[o] = FloatOf(0)
              /\ (AllEq(d, d[1]) /\ ExactSums(d)) =>
                     m_max_diff'[o] = FloatOf(d[1]) /\ m_avg_diff'[o] = FloatOf(d[1])]_vars

C6_Witness ==
    /\ Returned("checkValue")
    /\ getData(last.obj) = <<Two, Tiny, 0>>
    /\ getData(last.base) = <<0, Two, 0>>
    /\ m_max_diff[last.obj] = FloatOf(Two)
    /\ m_avg_diff[last.obj] = FloatDiv(2 * Two, 3)

\* C8 (as stated): random(c, c) leaves every host element equal to c, for c =
\* 0.0, 1.0 and 2.0; checkValue of an all-1.0 buffer against an all-2.0 buffer
\* gives 1.0 and 1.0, and of an all-zero buffer against an all-zero buffer 0
\* and 0.
C8_Scenarios ==
    [][/\ \A o \in Objs, c \in {0, One, Two} :
              \A u \in Draws(FloatGrid, m_elem_num[o], c, c) :
                  random(o, c, c, u) => AllEq(host'[m_data[o]], c)
       /\ (last'.op = "zeros" /\ status' = "running") => AllEq(host'[m_data[last'.obj]], 0)
       /\ (last'.op = "checkValue" /\ status' = "running") =>
              LET o == last'.obj
                  a == host[m_data[o]]
                  b == host[m_data[last'.base]]
              IN  /\ (AllEq(a, One) /\ AllEq(b, Two)) =>
                         m_max_diff'[o] = FloatOf(One) /\ m_avg_diff'[o] = FloatOf(One)
                  /\ (AllEq(a, 0) /\ AllEq(b, 0)) =>
                         m_max_diff'[o] = FloatOf(0) /\ m_avg_diff'[o] = FloatOf(0)]_vars

\* C9: a checkValue(base) that returns has changed no host and no device buffer
\* and no statistic but this object's, and these are what the two host buffers
\* alone give: the largest difference, and the differences' sum divided by the
\* element count, whatever the device buffers hold and whatever an earlier
\* comparison left.
C9_CheckValueFrame ==
    [][(last'.op = "checkValue" /\ status' = "running") =>
          LET o == last'.obj
              d == AbsDiffs(host[m_data[o]], host[m_data[last'.base]])
          IN  /\ host' = host
              /\ device' = device
              /\ \A x \in Objs : x # o =>
                     m_max_diff'[x] = m_max_diff[x] /\ m_avg_diff'[x] = m_avg_diff[x]
              /\ m_max_diff'[o] = FloatOf(SeqMax(d))
              /\ IsRounded(m_avg_diff'[o], SumTo(d, Len(d)), Len(d))]_vars

C9_Witness ==
    /\ Returned("checkValue")
    /\ last.base # last.obj
    /\ getData(last.obj) = <<0, One>>
    /\ getData(last.base) = <<0, One>>
    /\ getGpuData(last.obj) = <<One, 0>>
    /\ getGpuData(last.base) = <<0, 0>>
    /\ m_max_diff[last.obj] = FloatOf(0)
    /\ m_max_diff[last.base] = FloatOf(One)
====
